---- MODULE Spec2Model ----
(***************************************************************************)
(* The realtime session engine of src/backend/sessionManager.js (the       *)
(* in-memory server, lines 277-1740): the session store, the socket.io     *)
(* rooms of the /code namespace, the per-student rate limiter in front of  *)
(* the evaluator, the periodic summary pass, the disconnect grace timers,  *)
(* the per-socket idle timers, the execute-code handler with the temp      *)
(* files of its python runs and the SIGTERM handler, with the evaluator of *)
(* src/backend/AIsummary.js and the createSession of the DynamoDB-backed   *)
(* store (lines 24-73).                                                    *)
(*                                                                         *)
(* Node runs one handler at a time; a handler gives up control only where  *)
(* it awaits something that is not already settled.  An action is one such *)
(* uninterrupted piece: a whole handler, or the part of a handler before   *)
(* or after the evaluator's network call.                                  *)
(*                                                                         *)
(* Time is counted in units of 10 s (Date.now() / 10000).  The rate        *)
(* limiter's delays are measured on that clock.  The delays of the grace   *)
(* timer (5 min) and of the summary interval (30 s) are longer than the    *)
(* clock's horizon: such a timer is pending from the moment it is armed    *)
(* and its callback runs at some later step.  The idle timer (30 min)      *)
(* keeps its time of arming; the step that runs its callback moves the     *)
(* clock to its deadline.                                                  *)
(***************************************************************************)
EXTENDS Integers, Sequences, FiniteSets, TLC

\* ------------------------------------------------------------ bounds
MaxTime == 3
MaxEvents == 4
MaxPasses == 1
MaxRequests == 3
MaxOverlap == 2
MaxCreates == 3

\* ------------------------------------------------- program constants
\* now - lastTime < 10000
RateWindow == 1
\* setTimeout(..., 20000)
RateExpiry == 2
\* code.length > 10
MinSummaryLen == 10
\* setTimeout(..., 30 * 60 * 1000)
IdlePeriod == 180
\* delay(10000)
RetryDelay == 1

\* ----------------------------------------------------------- universe
Sockets == {"s1", "s2", "s3"}
SockSeq == <<"s1", "s2", "s3">>
Codes == {"abcdef", "uvwxyz"}
Names == {"Alice", "Bob"}
\* what a client may send as sessionCode / name: "" is a missing field
CodeInputs == Codes \cup {"", "nosuch"}
NameInputs == Names \cup {""}
\* drafts a client may send: at most 10 characters, and more than 10
DraftInputs == {"print(1)", "def f(n): return n*2"}
\* progress labels evaluateSubmission may resolve to
Summaries == {"notStarted", "halfwayDone"}

\* a JS value sent as a slide index: the number n is <<"int", n>>, the number
\* n + 0.5 is <<"frac", n>>, and <<"str", 0>> is a value that is no number
Int_(n) == <<"int", n>>
SlideInputs == {Int_(-1), Int_(0), Int_(1), Int_(2), <<"frac", 1>>, <<"str", 0>>}
IsNumber(v) == v[1] \in {"int", "frac"}

Slide(task, prompt) == [hasCodingTask |-> task, prompt |-> prompt]
Decks == {<< >>, <<Slide(FALSE, "Intro"), Slide(TRUE, "Write a factorial")>>}
DeckInputs == {<< >>, <<Slide(TRUE, "Sum a list")>>}

NoSock == ""
\* a student record without lastExecution
NoRun == [result |-> "<undefined>", error |-> "<undefined>"]
NoData == [name |-> "", sessionCode |-> "", isTeacher |-> FALSE]

VARIABLES
  now,           \* Date.now(), in units of 10 s
  store,         \* inMemoryDB.sessions: session code -> session object
  docs,          \* the session objects, by object identity
  conn,          \* per socket: "open" | "closed"
  sockData,      \* socket.data
  rooms,         \* the rooms a socket has joined
  summaryTimers, \* the session codes with a setInterval registered
  graceTimers,   \* pending removal timers of disconnected students
  limiter,       \* summaryRateLimiter: key -> time of the last accepted call
  rateTimers,    \* pending expiry timers of the rate limiter
  evals,         \* evaluator calls in flight for code-update handlers
  passes,        \* updateStudentSummaries invocations in progress
  nextToken,     \* the next value crypto.randomBytes yields
  evalLog,       \* history: per key, the start times of the last two evaluator calls
  out,           \* the events delivered by the last step, in order
  last,          \* the last step: what ran, for whom, with what outcome
  nEvents,       \* inbound events and HTTP requests handled so far
  execs,         \* python runs in flight for execute-code handlers
  removed,       \* history: (code, name) -> the token of the record a removal timer
                 \* deleted, until the name is joined again
  idleTimers,    \* pending activityTimeout timers: the socket and the time of arming
  intervals,     \* per session code, the setInterval timers that are running
  closing,       \* the SIGTERM handler has run
  tempFiles,     \* the files in tempDir
  cleanupTimers, \* pending 5 s timers that delete a temp file again
  nextFile,      \* the next value uuidv4 yields
  table,         \* the DynamoDB table of sessions: session code -> item
  creates        \* createSession calls in progress or done, per request

vars == <<now, store, docs, conn, sockData, rooms, summaryTimers, graceTimers,
          limiter, rateTimers, evals, passes, nextToken, evalLog, out, last, nEvents,
          execs, removed, idleTimers, intervals, closing, tempFiles, cleanupTimers,
          nextFile, table, creates>>

\* ------------------------------------------------------------ helpers
Key(sessionCode, name) == <<sessionCode, name>>

Put(f, k, v) == [x \in DOMAIN f \cup {k} |-> IF x = k THEN v ELSE f[x]]
Del(f, k) == [x \in DOMAIN f \ {k} |-> f[x]]

\* a step: the event, its socket, the session code and name it ran for, its
\* payload and its outcome
StepArg(ev, s, c, n, arg, res) ==
  [ev |-> ev, sock |-> s, code |-> c, name |-> n, arg |-> arg, res |-> res]
Step(ev, s, c, n, res) == StepArg(ev, s, c, n, "", res)

Emission(to, ev, name, val) == [to |-> to, ev |-> ev, name |-> name, val |-> val]

\* the sockets of `set`, in a fixed order
InOrder(set) == SelectSeq(SockSeq, LAMBDA t : t \in set)

\* one event to each socket of `set` that is still connected
ToEach(set, ev, name, val) ==
  LET live == InOrder({t \in set : conn[t] = "open"})
  IN [i \in 1..Len(live) |-> Emission(live[i], ev, name, val)]

\* codeIO.in(room).fetchSockets(): the connected sockets that joined the room
RoomSockets(room) == {t \in Sockets : conn[t] = "open" /\ room \in rooms[t]}

\* fetchSockets().filter(s => s.data?.isTeacher)
TeacherSockets(room) == {t \in RoomSockets(room) : sockData[t].isTeacher}

\* session.slides[i] exists
HasSlide(doc, v) == v[1] = "int" /\ v[2] >= 0 /\ v[2] < Len(doc.slides)

\* session.currentSlide || 0: 0 is the only falsy value currentSlide takes here
OrZero(v) == IF v = Int_(0) THEN Int_(0) ELSE v

isSlideWithCoding(doc, v) ==
  IF HasSlide(doc, v) THEN doc.slides[v[2] + 1].hasCodingTask ELSE FALSE

NoPrompt == "<undefined>"

\* ----------------------------------------------------- session objects
NewSession(deck) ==
  [active |-> TRUE, slides |-> deck, currentSlide |-> Int_(0), currentCode |-> "",
   teacherSocketId |-> NoSock, students |-> << >>]

\* a join that stores no token in the record
NewStudent_NoToken(s, token) ==
  [code |-> "", socketId |-> s, lastActive |-> now, reconnectToken |-> 0,
   disconnectedAt |-> 0, reconnectedAt |-> 0, summary |-> "",
   lastExecution |-> NoRun]

NewStudent(s, token) ==
  [code |-> "", socketId |-> s, lastActive |-> now, reconnectToken |-> token,
   disconnectedAt |-> 0, reconnectedAt |-> 0, summary |-> "",
   lastExecution |-> NoRun]

HasStudent(doc, name) == name \in DOMAIN doc.students

SetStudent(doc, name, rec) == [doc EXCEPT !.students = Put(@, name, rec)]

\* a pass holds the student objects it took at its start; one that is deleted
\* or replaced meanwhile keeps the values it had when it left the session
DetachStudent(ps, oid, name) ==
  [p \in DOMAIN ps |->
     IF ps[p].oid = oid /\ HasStudent(docs[oid], name)
     THEN [ps[p] EXCEPT !.todo =
             [i \in DOMAIN @ |->
                IF @[i].name = name /\ ~@[i].detached
                THEN [name |-> name, detached |-> TRUE,
                      code |-> docs[oid].students[name].code,
                      disconnectedAt |-> docs[oid].students[name].disconnectedAt]
                ELSE @[i]]]
     ELSE ps[p]]

\* --------------------------------------------------------------- Init
Init ==
  /\ now = 1
  /\ store = [c \in Codes |-> IF c = "abcdef" THEN 1 ELSE 2]
  /\ \E d1 \in Decks : docs = [o \in {1, 2} |-> IF o = 1 THEN NewSession(d1) ELSE NewSession(<< >>)]
  /\ conn = [s \in Sockets |-> "open"]
  /\ sockData = [s \in Sockets |-> NoData]
  /\ rooms = [s \in Sockets |-> {}]
  /\ summaryTimers = {}
  /\ graceTimers = {}
  /\ limiter = << >>
  /\ rateTimers = {}
  /\ evals = {}
  /\ passes = << >>
  /\ nextToken = 1
  /\ evalLog = [k \in Codes \X Names |-> << >>]
  /\ out = << >>
  /\ last = Step("init", NoSock, "", "", "")
  /\ nEvents = 0
  /\ execs = {}
  /\ removed = << >>
  /\ idleTimers = {[sock |-> s, armed |-> 1] : s \in Sockets}
  /\ intervals = [c \in Codes |-> 0]
  /\ closing = FALSE
  /\ tempFiles = {}
  /\ cleanupTimers = {}
  /\ nextFile = 1
  /\ table = << >>
  /\ creates = << >>

\* what every inbound event or request does besides its handler
Inbound(s) ==
  /\ nEvents < MaxEvents
  /\ nEvents' = nEvents + 1
  /\ s \in Sockets => conn[s] = "open"

\* a resetTimeout without clearTimeout
resetTimeout_NoClear(s) ==
  idleTimers \cup {[sock |-> s, armed |-> now]}

\* resetTimeout(): the pending timer is cleared and a new one armed
resetTimeout(s) ==
  {t \in idleTimers : t.sock # s} \cup {[sock |-> s, armed |-> now]}

\* an event of socket s arrives: the socket.use middleware runs before its handler
Packet(s) ==
  /\ Inbound(s)
  /\ idleTimers' = resetTimeout(s)

\* a request arrives on the HTTP surface
Request ==
  /\ Inbound(NoSock)
  /\ UNCHANGED idleTimers

FailArg(ev, s, c, n, arg, msg) ==
  /\ out' = <<Emission(s, "error", "", msg)>>
  /\ last' = StepArg(ev, s, c, n, arg, "error")
  /\ UNCHANGED <<now, store, docs, sockData, rooms, summaryTimers, graceTimers,
                 limiter, rateTimers, evals, passes, nextToken, evalLog, conn,
                 execs, removed, intervals>>

Fail(ev, s, c, n, msg) == FailArg(ev, s, c, n, "", msg)

\* the slide-change a joining or reconnecting socket is sent
CallerSlideChange(s, doc) ==
  Emission(s, "slide-change", "",
           [index |-> OrZero(doc.currentSlide),
            hasCodeEditor |-> isSlideWithCoding(doc, OrZero(doc.currentSlide)),
            prompt |-> NoPrompt])

\* history: a pending removal timer remembers that its student's name has
\* been joined again since the timer was armed
Rejoined(sessionCode, name) ==
  {IF t.code = sessionCode /\ t.name = name
   THEN [t EXCEPT !.rejoined = TRUE] ELSE t : t \in graceTimers}

\* ------------------------------------------------------- join-session
\* a join-session that does not look at the active flag
SessionEnded_Never(doc) == FALSE

\* session.active === false
SessionEnded(doc) == doc.active = FALSE

JoinSession(s, sessionCode, name) ==
  /\ Packet(s)
  /\ IF sessionCode = "" \/ name = ""
     THEN Fail("join-session", s, sessionCode, name, "Invalid session code or name format")
     ELSE IF sessionCode \notin DOMAIN store
     THEN Fail("join-session", s, sessionCode, name, "Invalid session code")
     ELSE IF SessionEnded(docs[store[sessionCode]])
     THEN Fail("join-session", s, sessionCode, name, "This session has ended")
     ELSE LET oid == store[sessionCode]
              doc == SetStudent(docs[oid], name, NewStudent(s, nextToken))
          IN /\ rooms' = [rooms EXCEPT ![s] = @ \cup {sessionCode}]
             /\ sockData' = [sockData EXCEPT ![s] =
                               [name |-> name, sessionCode |-> sessionCode, isTeacher |-> FALSE]]
             /\ docs' = [docs EXCEPT ![oid] = doc]
             /\ passes' = DetachStudent(passes, oid, name)
             /\ nextToken' = nextToken + 1
             /\ out' = <<Emission(s, "session-data", "", [doc |-> doc, reconnectToken |-> nextToken]),
                         CallerSlideChange(s, doc)>>
                       \o ToEach(RoomSockets(sessionCode) \ {s}, "user-joined", name, "")
             /\ last' = Step("join-session", s, sessionCode, name, "ok")
             /\ graceTimers' = Rejoined(sessionCode, name)
             /\ removed' = Del(removed, Key(sessionCode, name))
             /\ UNCHANGED <<now, store, conn, summaryTimers, limiter,
                            rateTimers, evals, evalLog>>
  /\ UNCHANGED execs
  /\ UNCHANGED intervals
  /\ UNCHANGED <<closing, tempFiles, cleanupTimers, nextFile, table, creates>>

\* ------------------------------------------------------- teacher-join
\* a teacher-join that starts a timer whether or not one is registered
NeedsScheduler_Always(sessionCode) == TRUE

\* !summaryTimers.has(sessionCode)
NeedsScheduler(sessionCode) == sessionCode \notin summaryTimers

TeacherJoin(s, sessionCode, name) ==
  /\ Packet(s)
  /\ IF sessionCode = "" \/ name = ""
     THEN Fail("teacher-join", s, sessionCode, name, "Invalid session code or name format")
     ELSE IF sessionCode \notin DOMAIN store
     THEN Fail("teacher-join", s, sessionCode, name, "Invalid session code")
     ELSE LET oid == store[sessionCode]
          IN /\ rooms' = [rooms EXCEPT ![s] = @ \cup {sessionCode}]
             /\ sockData' = [sockData EXCEPT ![s] =
                               [name |-> name, sessionCode |-> sessionCode, isTeacher |-> TRUE]]
             /\ out' = <<Emission(s, "session-data", "", [doc |-> docs[oid], reconnectToken |-> 0])>>
             /\ summaryTimers' = summaryTimers \cup {sessionCode}
             /\ intervals' = IF NeedsScheduler(sessionCode)
                             THEN [intervals EXCEPT ![sessionCode] = @ + 1]
                             ELSE intervals
             /\ docs' = [docs EXCEPT ![oid].teacherSocketId = s]
             /\ last' = Step("teacher-join", s, sessionCode, name, "ok")
             /\ UNCHANGED <<now, store, conn, graceTimers, limiter, rateTimers, evals,
                            passes, nextToken, evalLog>>
  /\ UNCHANGED <<execs, removed>>
  /\ UNCHANGED <<closing, tempFiles, cleanupTimers, nextFile, table, creates>>

\* -------------------------------------------------- reconnect-session
\* history: a pending removal timer remembers that its student has come back
\* with the stored token since the timer was armed
Reconnected(sessionCode, name, matched) ==
  {IF t.code = sessionCode /\ t.name = name /\ matched
   THEN [t EXCEPT !.reconnected = TRUE] ELSE t : t \in graceTimers}

\* token is read from the payload and not used
ReconnectSession(s, sessionCode, name, token) ==
  /\ Packet(s)
  /\ IF sessionCode = "" \/ name = ""
     THEN FailArg("reconnect-session", s, sessionCode, name, token, "Missing session code or name")
     ELSE IF sessionCode \notin DOMAIN store
     THEN FailArg("reconnect-session", s, sessionCode, name, token, "Invalid session code")
     ELSE IF ~HasStudent(docs[store[sessionCode]], name)
     THEN FailArg("reconnect-session", s, sessionCode, name, token, "Student not found in session")
     ELSE LET oid == store[sessionCode]
              old == docs[oid].students[name]
              doc == SetStudent(docs[oid], name,
                                [old EXCEPT !.socketId = s, !.lastActive = now])
          IN /\ rooms' = [rooms EXCEPT ![s] = @ \cup {sessionCode}]
             /\ sockData' = [sockData EXCEPT ![s] =
                               [name |-> name, sessionCode |-> sessionCode, isTeacher |-> FALSE]]
             /\ docs' = [docs EXCEPT ![oid] = doc]
             /\ out' = <<Emission(s, "session-data", "", [doc |-> doc, reconnectToken |-> 0]),
                         CallerSlideChange(s, doc)>>
                       \o (IF old.code # ""
                           THEN <<Emission(s, "code-restore", "", old.code)>>
                           ELSE << >>)
             /\ last' = StepArg("reconnect-session", s, sessionCode, name, token, "ok")
             /\ graceTimers' = Reconnected(sessionCode, name, token = old.reconnectToken)
             /\ UNCHANGED <<now, store, conn, summaryTimers, limiter,
                            rateTimers, evals, passes, nextToken, evalLog>>
  /\ UNCHANGED <<execs, removed>>
  /\ UNCHANGED intervals
  /\ UNCHANGED <<closing, tempFiles, cleanupTimers, nextFile, table, creates>>

\* --------------------------------------------------------- disconnect
\* the timer the closure variable activityTimeout of socket s refers to: the
\* one armed last
activityTimeout(s) ==
  {t \in idleTimers : t.sock = s /\ \A u \in idleTimers : u.sock = s => u.armed <= t.armed}

\* no teacher is left in the room besides s
LastTeacher(s, c) == TeacherSockets(c) \ {s} = {}

\* the 'disconnect' handler of socket s, run at time `at` for the reason ev
\* while the idle timers `pending` are armed; socket.io has taken the socket
\* out of its rooms when it runs
Closes(s, ev, at, pending) ==
  /\ conn' = [conn EXCEPT ![s] = "closed"]
  /\ rooms' = [rooms EXCEPT ![s] = {}]
  /\ idleTimers' = pending \ activityTimeout(s)
  /\ LET d == sockData[s]
         c == d.sessionCode
         n == d.name
     IN /\ last' = Step(ev, s, c, n, "ok")
        /\ IF c = "" \/ n = ""
           THEN /\ out' = << >>
                /\ UNCHANGED <<summaryTimers, intervals, docs, graceTimers>>
           ELSE /\ out' = ToEach(RoomSockets(c) \ {s}, "user-left", n, "")
                /\ IF d.isTeacher
                   THEN /\ summaryTimers' =
                             IF LastTeacher(s, c) THEN summaryTimers \ {c}
                             ELSE summaryTimers
                        /\ intervals' =
                             IF LastTeacher(s, c) /\ c \in summaryTimers
                             THEN [intervals EXCEPT ![c] = @ - 1]
                             ELSE intervals
                        /\ UNCHANGED <<docs, graceTimers>>
                   ELSE /\ UNCHANGED <<summaryTimers, intervals>>
                        /\ IF c \in DOMAIN store /\ HasStudent(docs[store[c]], n)
                           THEN /\ docs' = [docs EXCEPT ![store[c]].students[n].disconnectedAt = at]
                                /\ graceTimers' = graceTimers \cup
                                     {[code |-> c, name |-> n, sock |-> s, reconnected |-> FALSE,
                                       rejoined |-> FALSE]}
                           ELSE UNCHANGED <<docs, graceTimers>>
  /\ UNCHANGED <<store, sockData, limiter, rateTimers, evals, passes, nextToken, evalLog>>
  /\ UNCHANGED <<execs, removed>>

\* the client goes away
Disconnect(s) ==
  /\ Inbound(s)
  /\ Closes(s, "disconnect", now, idleTimers)
  /\ UNCHANGED now
  /\ UNCHANGED <<closing, tempFiles, cleanupTimers, nextFile, table, creates>>

\* the callback of an activityTimeout timer, when no inbound event has reset it
\* for 30 minutes and no timer with a shorter delay is pending:
\* socket.disconnect(true), and the 'disconnect' handler it calls
IdleTimerFires(t) ==
  /\ t \in idleTimers
  /\ now <= t.armed + IdlePeriod
  /\ \A u \in idleTimers : t.armed <= u.armed
  /\ graceTimers = {} /\ rateTimers = {}
  /\ now' = t.armed + IdlePeriod
  /\ Closes(t.sock, "idle-timeout", t.armed + IdlePeriod, idleTimers \ {t})
  /\ UNCHANGED nEvents
  /\ UNCHANGED <<closing, tempFiles, cleanupTimers, nextFile, table, creates>>

\* currentSession?.students?.[name]?.disconnectedAt && !...reconnectedAt
StillDisconnected(sessionCode, name) ==
  /\ sessionCode \in DOMAIN store
  /\ HasStudent(docs[store[sessionCode]], name)
  /\ docs[store[sessionCode]].students[name].disconnectedAt # 0
  /\ docs[store[sessionCode]].students[name].reconnectedAt = 0

\* the callback of the 5-minute removal timer
GraceTimerFires(t) ==
  /\ t \in graceTimers
  /\ graceTimers' = graceTimers \ {t}
  /\ out' = << >>
  /\ IF StillDisconnected(t.code, t.name)
     THEN /\ docs' = [docs EXCEPT ![store[t.code]].students = Del(@, t.name)]
          /\ passes' = DetachStudent(passes, store[t.code], t.name)
          /\ removed' = Put(removed, Key(t.code, t.name),
                             docs[store[t.code]].students[t.name].reconnectToken)
          /\ last' = Step("grace-timer", t.sock, t.code, t.name, "removed")
     ELSE /\ last' = Step("grace-timer", t.sock, t.code, t.name, "kept")
          /\ UNCHANGED <<docs, passes, removed>>
  /\ UNCHANGED <<now, store, conn, sockData, rooms, summaryTimers, limiter, rateTimers,
                 evals, nextToken, evalLog, nEvents>>
  /\ UNCHANGED execs
  /\ UNCHANGED <<idleTimers, intervals>>
  /\ UNCHANGED <<closing, tempFiles, cleanupTimers, nextFile, table, creates>>

\* ------------------------------------------------------ the evaluator
\* AIsummary.js.  A text is a sequence of lexemes: words, and the characters
\* the parser looks at, one lexeme each.
Call == "analyzeStudentCode("
Quote == "\""

\* the progress labels of the function schema
Labels == {"notStarted", "justStarted", "halfwayDone", "almostDone", "allDone"}

\* texts the language model may stream back: a call as asked for, a call with
\* a label outside the schema, a call with one argument, a call without
\* arguments, a call whose feedback holds a comma, and a text without a call
Responses ==
  {<<Call, Quote, "allDone", Quote, ",", " ", Quote, "Correct", Quote, ")">>,
   <<Call, Quote, "excellent", Quote, ",", " ", Quote, "Correct", Quote, ")">>,
   <<Call, Quote, "halfwayDone", Quote, ")">>,
   <<Call, ")">>,
   <<"Here:", " ", Call, "'", "justStarted", "'", ",", Quote, "Loop", ",", " ", "then", Quote, ")">>,
   <<"I", " ", "cannot", " ", "help">>}

\* what one request to the language model ends in, besides status 429
Answers == [status : {200}, text : Responses] \cup {[status |-> 500, text |-> << >>]}

\* the group of the first match of /analyzeStudentCode\(([^)]+)\)/, << >> when
\* the text has no match
Group(text) ==
  LET hits == {h \in (1..Len(text)) \X (1..Len(text)) :
                 /\ text[h[1]] = Call
                 /\ text[h[2]] = ")"
                 /\ h[2] > h[1] + 1
                 /\ \A k \in (h[1] + 1)..(h[2] - 1) : text[k] # ")"}
  IN IF hits = {} THEN << >>
     ELSE LET h == CHOOSE g \in hits : \A f \in hits : g[1] <= f[1]
          IN SubSeq(text, h[1] + 1, h[2] - 1)

\* text.split(',')
RECURSIVE Split(_)
Split(text) ==
  LET commas == {i \in 1..Len(text) : text[i] = ","}
  IN IF commas = {} THEN <<text>>
     ELSE LET i == CHOOSE k \in commas : \A m \in commas : k <= m
          IN <<SubSeq(text, 1, i - 1)>> \o Split(SubSeq(text, i + 1, Len(text)))

\* s.trim()
RECURSIVE Trim(_)
Trim(text) ==
  IF text # << >> /\ Head(text) = " " THEN Trim(Tail(text))
  ELSE IF text # << >> /\ text[Len(text)] = " " THEN Trim(SubSeq(text, 1, Len(text) - 1))
  ELSE text

\* s.replace(/["']/g, '')
Unquote(text) == SelectSeq(text, LAMBDA x : x \notin {Quote, "'"})

\* a text as the string stored in progress: one word is that word
Word(text) == IF Len(text) = 1 THEN text[1] ELSE IF text = << >> THEN "" ELSE "<text>"

Undefined == <<"<undefined>">>

defaultResponse == [progress |-> "notStarted", feedback |-> <<"Please", " ", "start">>]

\* const [progress, feedback] = match[1].split(',').map(...)
parseFunctionCall(text) ==
  IF Group(text) = << >> THEN defaultResponse
  ELSE LET parts == Split(Group(text))
       IN [progress |-> Word(Unquote(Trim(parts[1]))),
           feedback |-> IF Len(parts) >= 2 THEN Unquote(Trim(parts[2])) ELSE Undefined]

\* analyzeStudentCode for an answer other than status 429
analyzeStudentCode(answer) ==
  IF answer.status = 200 /\ Group(answer.text) # << >>
  THEN parseFunctionCall(answer.text)
  ELSE defaultResponse

\* -------------------------------------------------- the rate limiter
\* a limiter whose window is empty
RateLimited_NoWindow(key) ==
  key \in DOMAIN limiter /\ limiter[key] # 0 /\ now - limiter[key] < 0

\* generateCodeSummary's test: a call for this key was accepted less than 10 s ago
RateLimited(key) ==
  key \in DOMAIN limiter /\ limiter[key] # 0 /\ now - limiter[key] < RateWindow

\* the history of evaluateSubmission calls, kept to the last two per key
Logged(key) ==
  [evalLog EXCEPT ![key] = IF Len(@) < 2 THEN Append(@, now) ELSE <<@[2], now>>]

\* the record `session.students[name] = {}` creates
EmptyStudent ==
  [code |-> "", socketId |-> NoSock, lastActive |-> 0, reconnectToken |-> 0,
   disconnectedAt |-> 0, reconnectedAt |-> 0, summary |-> "",
   lastExecution |-> NoRun]

NotAString == "<not-a-string>"

\* -------------------------------------------------------- code-update
\* an updateStudentCode that writes the draft into every student's record
updateStudentCode_All(doc, name, code) ==
  IF HasStudent(doc, name)
  THEN [doc EXCEPT !.students =
          [n \in DOMAIN @ |-> [@[n] EXCEPT !.code = code, !.lastActive = now]]]
  ELSE doc

\* updateStudentCode(sessionCode, name, code)
updateStudentCode(doc, name, code) ==
  IF HasStudent(doc, name)
  THEN [doc EXCEPT !.students[name].code = code, !.students[name].lastActive = now]
  ELSE doc

\* a teacher branch that also stores the draft in the record of the student
\* of the teacher's name
TeacherDraft_Stored(doc, name, code) ==
  [updateStudentCode(doc, name, code) EXCEPT !.currentCode = code]

\* the teacher branch: session.currentCode = code
TeacherDraft(doc, name, code) == [doc EXCEPT !.currentCode = code]

CodeUpdate(s, code) ==
  /\ Packet(s)
  /\ LET c == sockData[s].sessionCode
         n == sockData[s].name
     IN IF code = NotAString
        THEN FailArg("code-update", s, c, n, code, "Invalid code data format")
        ELSE IF c = "" \/ n = ""
        THEN FailArg("code-update", s, c, n, code, "Not in a session")
        ELSE IF c \notin DOMAIN store
        THEN /\ out' = << >>
             /\ last' = StepArg("code-update", s, c, n, code, "no-session")
             /\ UNCHANGED <<docs, limiter, evals, evalLog>>
        ELSE IF sockData[s].isTeacher
        THEN /\ docs' = [docs EXCEPT ![store[c]] = TeacherDraft(@, n, code)]
             /\ out' = << >>
             /\ last' = StepArg("code-update", s, c, n, code, "teacher")
             /\ UNCHANGED <<limiter, evals, evalLog>>
        ELSE LET oid == store[c]
                 teachers == TeacherSockets(c)
             IN /\ docs' = [docs EXCEPT ![oid] = updateStudentCode(@, n, code)]
                /\ out' = ToEach(teachers, "student-code-update", n, code)
                /\ IF Len(code) > MinSummaryLen /\ ~RateLimited(Key(c, n))
                   THEN /\ limiter' = Put(limiter, Key(c, n), now)
                        /\ evalLog' = Logged(Key(c, n))
                        /\ evals' = evals \cup
                             {[sock |-> s, oid |-> oid, code |-> c, name |-> n,
                               teachers |-> teachers, stamp |-> now,
                               requests |-> 1, asked |-> now]}
                        /\ last' = StepArg("code-update", s, c, n, code, "evaluating")
                   ELSE /\ last' = StepArg("code-update", s, c, n, code,
                                        IF Len(code) > MinSummaryLen THEN "rate-limited"
                                        ELSE "short")
                        /\ UNCHANGED <<limiter, evals, evalLog>>
  /\ UNCHANGED <<now, store, conn, sockData, rooms, summaryTimers, graceTimers,
                 rateTimers, passes, nextToken>>
  /\ UNCHANGED <<execs, removed>>
  /\ UNCHANGED intervals
  /\ UNCHANGED <<closing, tempFiles, cleanupTimers, nextFile, table, creates>>

\* the model answers a request of analyzeStudentCode with status 429: the
\* catch block waits 10 s and calls analyzeStudentCode again
EvalRetries(e) ==
  /\ e \in evals
  /\ e.requests < MaxRequests
  /\ now >= e.asked + RetryDelay
  /\ evals' = (evals \ {e}) \cup {[e EXCEPT !.requests = @ + 1, !.asked = now]}
  /\ out' = << >>
  /\ last' = Step("eval-retry", e.sock, e.code, e.name, "429")
  /\ UNCHANGED <<now, store, docs, conn, sockData, rooms, summaryTimers, graceTimers,
                 limiter, rateTimers, passes, nextToken, evalLog, nEvents, execs,
                 removed, idleTimers, intervals>>
  /\ UNCHANGED <<closing, tempFiles, cleanupTimers, nextFile, table, creates>>

\* evaluateSubmission resolves for a code-update handler: generateCodeSummary's
\* finally block, then the rest of the handler
EvalReturns(e, summary) ==
  /\ e \in evals
  /\ evals' = evals \ {e}
  /\ rateTimers' = rateTimers \cup
       {[key |-> Key(e.code, e.name), stamp |-> e.stamp, due |-> now + RateExpiry]}
  /\ LET doc == docs[e.oid]
         rec == IF HasStudent(doc, e.name) THEN doc.students[e.name] ELSE EmptyStudent
     IN docs' = [docs EXCEPT ![e.oid] = SetStudent(doc, e.name, [rec EXCEPT !.summary = summary])]
  /\ store' = Put(store, e.code, e.oid)
  /\ out' = ToEach(e.teachers, "student-summary-update", e.name, summary)
  /\ last' = Step("eval-return", e.sock, e.code, e.name, "persisted")
  /\ UNCHANGED <<now, conn, sockData, rooms, summaryTimers, graceTimers, limiter,
                 passes, nextToken, evalLog, nEvents>>
  /\ UNCHANGED <<execs, removed>>
  /\ UNCHANGED <<idleTimers, intervals>>
  /\ UNCHANGED <<closing, tempFiles, cleanupTimers, nextFile, table, creates>>

\* a callback that deletes the entry whichever call set it
Expired_Any(t) == Del(limiter, t.key)

\* if (summaryRateLimiter.get(rateKey) === now) summaryRateLimiter.delete(rateKey)
Expired(t) ==
  IF t.key \in DOMAIN limiter /\ limiter[t.key] = t.stamp
  THEN Del(limiter, t.key) ELSE limiter

\* the callback of the limiter's 20 s timer
RateTimerFires(t) ==
  /\ t \in rateTimers
  /\ now >= t.due
  /\ rateTimers' = rateTimers \ {t}
  /\ limiter' = Expired(t)
  /\ out' = << >>
  /\ last' = Step("rate-timer", NoSock, t.key[1], t.key[2], "")
  /\ UNCHANGED <<now, store, docs, conn, sockData, rooms, summaryTimers, graceTimers,
                 evals, passes, nextToken, evalLog, nEvents>>
  /\ UNCHANGED <<execs, removed>>
  /\ UNCHANGED <<idleTimers, intervals>>
  /\ UNCHANGED <<closing, tempFiles, cleanupTimers, nextFile, table, creates>>

\* ------------------------------------------------ the summary scheduler
\* the values a pass reads from the student object it holds
Held(e, oid) ==
  IF ~e.detached /\ HasStudent(docs[oid], e.name)
  THEN [code |-> docs[oid].students[e.name].code,
        disconnectedAt |-> docs[oid].students[e.name].disconnectedAt]
  ELSE [code |-> e.code, disconnectedAt |-> e.disconnectedAt]

\* the entry is neither skipped (no code, disconnected) nor refused by the limiter
Evaluated(e, oid, c) ==
  /\ Held(e, oid).code # ""
  /\ Held(e, oid).disconnectedAt = 0
  /\ ~RateLimited(Key(c, e.name))

\* the for-loop of updateStudentSummaries from entry list `todo` up to its next
\* evaluator call, or to its end
RunPass(p, c, oid, todo) ==
  LET hits == {i \in DOMAIN todo : Evaluated(todo[i], oid, c)}
  IN IF hits = {}
     THEN /\ passes' = Del(passes, p)
          /\ store' = Put(store, c, oid)
          /\ UNCHANGED <<limiter, evalLog>>
     ELSE LET i == CHOOSE k \in hits : \A m \in hits : k <= m
          IN /\ passes' = Put(passes, p, [code |-> c, oid |-> oid, cur |-> todo[i].name,
                                          stamp |-> now,
                                          todo |-> SubSeq(todo, i + 1, Len(todo))])
             /\ limiter' = Put(limiter, Key(c, todo[i].name), now)
             /\ evalLog' = Logged(Key(c, todo[i].name))
             /\ UNCHANGED store

\* Object.entries(students), in some order
Entries(doc) ==
  {q \in [1..Cardinality(DOMAIN doc.students) ->
            [name : DOMAIN doc.students, detached : {FALSE}, code : {""}, disconnectedAt : {0}]] :
     \A i, j \in DOMAIN q : i # j => q[i].name # q[j].name}

\* updateStudentSummaries(sessionCode) starts, up to its first evaluator call;
\* the model lets at most `max` invocations be in progress
StartPass(c, max) ==
  /\ intervals[c] > 0
  /\ Cardinality(DOMAIN passes) < max
  /\ out' = << >>
  /\ IF c \notin DOMAIN store
     THEN /\ last' = Step("summary-tick", NoSock, c, "", "no-session")
          /\ UNCHANGED <<passes, store, limiter, evalLog>>
     ELSE /\ last' = Step("summary-tick", NoSock, c, "", "pass")
          /\ \E todo \in Entries(docs[store[c]]) :
               RunPass(CHOOSE p \in 1..max : p \notin DOMAIN passes, c, store[c], todo)
  /\ UNCHANGED <<now, docs, conn, sockData, rooms, summaryTimers, graceTimers,
                 rateTimers, evals, nextToken, nEvents>>
  /\ UNCHANGED <<execs, removed>>
  /\ UNCHANGED <<idleTimers, intervals>>
  /\ UNCHANGED <<closing, tempFiles, cleanupTimers, nextFile, table, creates>>

\* the setInterval callback
SchedulerTick(c) == StartPass(c, MaxPasses)

\* a pass that gives up when the handling of one student throws
AfterFailure_Abort(todo) == << >>

\* the catch block inside the loop: the loop goes on with the next entry
AfterFailure(todo) == todo

\* what generateCodeSummary returns when evaluateSubmission throws
EvaluatorFailed == "unknown"

\* evaluateSubmission resolves for a pass: the finally block, the write of the
\* summary, the emission to the teachers, and the loop up to the next call
PassEvalReturns(p, summary) ==
  /\ p \in DOMAIN passes
  /\ LET ps == passes[p]
         doc == docs[ps.oid]
     IN /\ rateTimers' = rateTimers \cup
             {[key |-> Key(ps.code, ps.cur), stamp |-> ps.stamp, due |-> now + RateExpiry]}
        /\ IF HasStudent(doc, ps.cur)
           THEN /\ docs' = [docs EXCEPT ![ps.oid].students[ps.cur].summary = summary]
                /\ out' = ToEach(TeacherSockets(ps.code), "student-summary-update", ps.cur, summary)
                /\ last' = StepArg("pass-return", NoSock, ps.code, ps.cur, p, "persisted")
           ELSE /\ out' = << >>
                /\ last' = StepArg("pass-return", NoSock, ps.code, ps.cur, p, "threw")
                /\ UNCHANGED docs
        /\ RunPass(p, ps.code, ps.oid,
                   IF HasStudent(doc, ps.cur) THEN ps.todo ELSE AfterFailure(ps.todo))
  /\ UNCHANGED <<now, conn, sockData, rooms, summaryTimers, graceTimers, evals,
                 nextToken, nEvents>>
  /\ UNCHANGED <<execs, removed>>
  /\ UNCHANGED <<idleTimers, intervals>>
  /\ UNCHANGED <<closing, tempFiles, cleanupTimers, nextFile, table, creates>>

\* ------------------------------------------------------- HTTP surface
Http(ev, c, n, status) ==
  /\ out' = << >>
  /\ last' = Step(ev, NoSock, c, n, status)

\* PUT /api/sessions/:sessionCode/end
endSession(c) ==
  /\ Request
  /\ IF c \notin DOMAIN store
     THEN Http("http-end", c, "", "404") /\ UNCHANGED docs
     ELSE /\ docs' = [docs EXCEPT ![store[c]].active = FALSE]
          /\ Http("http-end", c, "", "200")
  /\ UNCHANGED <<now, store, conn, sockData, rooms, summaryTimers, graceTimers,
                 limiter, rateTimers, evals, passes, nextToken, evalLog>>
  /\ UNCHANGED <<execs, removed>>
  /\ UNCHANGED intervals
  /\ UNCHANGED <<closing, tempFiles, cleanupTimers, nextFile, table, creates>>

\* POST /api/sessions/:sessionCode/join
joinSession(c, studentName) ==
  /\ Request
  /\ IF studentName = ""
     THEN Http("http-join", c, studentName, "400") /\ UNCHANGED <<docs, passes, graceTimers, removed>>
     ELSE IF c \notin DOMAIN store
     THEN Http("http-join", c, studentName, "404") /\ UNCHANGED <<docs, passes, graceTimers, removed>>
     ELSE IF ~docs[store[c]].active
     THEN Http("http-join", c, studentName, "400") /\ UNCHANGED <<docs, passes, graceTimers, removed>>
     ELSE /\ docs' = [docs EXCEPT ![store[c]] =
                        SetStudent(@, studentName, [EmptyStudent EXCEPT !.lastActive = now])]
          /\ passes' = DetachStudent(passes, store[c], studentName)
          /\ graceTimers' = Rejoined(c, studentName)
          /\ removed' = Del(removed, Key(c, studentName))
          /\ Http("http-join", c, studentName, "200")
  /\ UNCHANGED <<now, store, conn, sockData, rooms, summaryTimers,
                 limiter, rateTimers, evals, nextToken, evalLog>>
  /\ UNCHANGED execs
  /\ UNCHANGED intervals
  /\ UNCHANGED <<closing, tempFiles, cleanupTimers, nextFile, table, creates>>

\* parseInt(slideIndex, 10); <<"str", 0>> stands for NaN
ParseInt(v) == IF v[1] = "str" THEN v ELSE Int_(v[2])

\* PUT /api/sessions/:sessionCode/slide/:slideIndex
updateCurrentSlide(c, slideIndex) ==
  /\ Request
  /\ LET slideNum == ParseInt(slideIndex)
     IN IF slideNum[1] = "str" \/ slideNum[2] < 0
        THEN Http("http-slide", c, "", "400") /\ UNCHANGED docs
        ELSE IF c \notin DOMAIN store
        THEN Http("http-slide", c, "", "404") /\ UNCHANGED docs
        ELSE /\ docs' = [docs EXCEPT ![store[c]].currentSlide = slideNum]
             /\ Http("http-slide", c, "", "200")
  /\ UNCHANGED <<now, store, conn, sockData, rooms, summaryTimers, graceTimers,
                 limiter, rateTimers, evals, passes, nextToken, evalLog>>
  /\ UNCHANGED <<execs, removed>>
  /\ UNCHANGED intervals
  /\ UNCHANGED <<closing, tempFiles, cleanupTimers, nextFile, table, creates>>

\* the request bodies of PUT /api/sessions/:sessionCode this model sends
UpdateInputs ==
  [key : {"currentSlide"}, value : {Int_(0), Int_(2)}]
    \cup [key : {"slides"}, value : DeckInputs]
    \cup [key : {"active"}, value : BOOLEAN]

\* PUT /api/sessions/:sessionCode
updateSession(c, u) ==
  /\ Request
  /\ IF c \notin DOMAIN store
     THEN Http("http-update", c, "", "404") /\ UNCHANGED docs
     ELSE /\ docs' = [docs EXCEPT ![store[c]] =
                        CASE u.key = "currentSlide" -> [@ EXCEPT !.currentSlide = u.value]
                          [] u.key = "slides" -> [@ EXCEPT !.slides = u.value]
                          [] u.key = "active" -> [@ EXCEPT !.active = u.value]]
          /\ Http("http-update", c, "", "200")
  /\ UNCHANGED <<now, store, conn, sockData, rooms, summaryTimers, graceTimers,
                 limiter, rateTimers, evals, passes, nextToken, evalLog>>
  /\ UNCHANGED <<execs, removed>>
  /\ UNCHANGED intervals
  /\ UNCHANGED <<closing, tempFiles, cleanupTimers, nextFile, table, creates>>

\* ------------------------------------------------------------- slides
\* session.slides[slideIndex].prompt || ''
SlidePrompt(doc, v) == IF HasSlide(doc, v) THEN doc.slides[v[2] + 1].prompt ELSE ""

\* an update-slide that also flips currentCode between "" and "x"
WriteSlide_Flip(doc, slideIndex) ==
  [doc EXCEPT !.currentSlide = slideIndex, !.currentCode = IF @ = "" THEN "x" ELSE ""]

\* session.currentSlide = slideIndex
WriteSlide(doc, slideIndex) == [doc EXCEPT !.currentSlide = slideIndex]

\* history: the step before this one was the same update-slide, and it was carried out
Repeats(s, c, slideIndex) ==
  /\ last.ev = "update-slide"
  /\ last.res = "ok"
  /\ last.sock = s
  /\ last.code = c
  /\ last.arg = slideIndex

UpdateSlide(s, slideIndex) ==
  /\ Packet(s)
  /\ LET c == sockData[s].sessionCode
         n == sockData[s].name
     IN IF ~IsNumber(slideIndex)
        THEN FailArg("update-slide", s, c, n, slideIndex, "Invalid slide data format")
        ELSE IF c = "" \/ ~sockData[s].isTeacher
        THEN FailArg("update-slide", s, c, n, slideIndex, "Not authorized to change slides")
        ELSE /\ IF c \notin DOMAIN store
                THEN /\ out' = << >>
                     /\ last' = StepArg("update-slide", s, c, n, slideIndex, "no-session")
                     /\ UNCHANGED docs
                ELSE LET doc == WriteSlide(docs[store[c]], slideIndex)
                     IN /\ docs' = [docs EXCEPT ![store[c]] = doc]
                        /\ out' = ToEach(RoomSockets(c), "slide-change", "",
                                         [index |-> slideIndex,
                                          hasCodeEditor |-> isSlideWithCoding(doc, slideIndex),
                                          prompt |-> SlidePrompt(doc, slideIndex)])
                        /\ last' = [ev |-> "update-slide", sock |-> s, code |-> c, name |-> n,
                                     arg |-> slideIndex, res |-> "ok",
                                     repeat |-> Repeats(s, c, slideIndex)]
             /\ UNCHANGED <<now, store, conn, sockData, rooms, summaryTimers, graceTimers,
                            limiter, rateTimers, evals, passes, nextToken, evalLog>>
  /\ UNCHANGED <<execs, removed>>
  /\ UNCHANGED intervals
  /\ UNCHANGED <<closing, tempFiles, cleanupTimers, nextFile, table, creates>>

\* data.slides of update-slide-data; a payload without slides gives []
UpdateSlideData(s, slides) ==
  /\ Packet(s)
  /\ LET c == sockData[s].sessionCode
         n == sockData[s].name
     IN /\ out' = << >>
        /\ IF ~sockData[s].isTeacher \/ c = "" \/ c \notin DOMAIN store
           THEN /\ last' = StepArg("update-slide-data", s, c, n, slides, "ignored")
                /\ UNCHANGED docs
           ELSE /\ docs' = [docs EXCEPT ![store[c]].slides = slides]
                /\ last' = StepArg("update-slide-data", s, c, n, slides, "ok")
  /\ UNCHANGED <<now, store, conn, sockData, rooms, summaryTimers, graceTimers,
                 limiter, rateTimers, evals, passes, nextToken, evalLog>>
  /\ UNCHANGED <<execs, removed>>
  /\ UNCHANGED intervals
  /\ UNCHANGED <<closing, tempFiles, cleanupTimers, nextFile, table, creates>>

\* DELETE /api/sessions/:sessionCode
deleteSession(c) ==
  /\ Request
  /\ IF c \notin DOMAIN store
     THEN Http("http-delete", c, "", "404") /\ UNCHANGED store
     ELSE /\ store' = Del(store, c)
          /\ Http("http-delete", c, "", "200")
  /\ UNCHANGED <<now, docs, conn, sockData, rooms, summaryTimers, graceTimers,
                 limiter, rateTimers, evals, passes, nextToken, evalLog, execs, removed>>
  /\ UNCHANGED intervals
  /\ UNCHANGED <<closing, tempFiles, cleanupTimers, nextFile, table, creates>>

\* ------------------------------------------------------- execute-code
\* data.language of execute-code
Languages == {"javascript", "python", "ruby"}

NoError == "<null>"

\* what a run in the vm2 sandbox or in the python child process can give
RunResults ==
  {[result |-> "=> 2", error |-> NoError],
   [result |-> "Error: x is not defined", error |-> "x is not defined"]}

\* the result of a language that is neither javascript nor python
NotImplemented ==
  [result |-> "Code execution not implemented for this language", error |-> NoError]

\* execute-code from "Store execution result" to its end, for the socket s that
\* sent it while bound to session c under name n
StoreAndSend(s, c, n, run) ==
  /\ IF c \in DOMAIN store /\ HasStudent(docs[store[c]], n)
     THEN docs' = [docs EXCEPT ![store[c]].students[n].lastExecution = run]
     ELSE UNCHANGED docs
  /\ out' = ToEach({s}, "execution-result", "", run)
            \o (IF ~sockData[s].isTeacher
                THEN ToEach(TeacherSockets(c), "student-execution-result", n, run)
                ELSE << >>)

\* the result when execPromise rejects because the 5 s timer ran out
TimedOut ==
  [result |-> "Error: Execution timed out after 5000ms",
   error |-> "Execution timed out after 5000ms"]

\* the result when execPromise rejects the command
Refused ==
  [result |-> "Error: Only Python execution with safe parameters is allowed",
   error |-> "Only Python execution with safe parameters is allowed"]

\* the result when fs.writeFileSync throws
Unwritable ==
  [result |-> "Error: ENOENT: no such file or directory",
   error |-> "ENOENT: no such file or directory"]

\* how the synchronous part of a python run ends: the child process is
\* started, the command is refused by safeCommandRegex, or the file cannot be
\* written
Fates == {"runs", "refused", "unwritable"}

\* a finally block that leaves the file where it is
unlinkSync_Never(f, throws) == tempFiles

\* if (fs.existsSync(tempFile)) fs.unlinkSync(tempFile): the file is gone
\* unless the call throws
unlinkSync(f, throws) == IF throws THEN tempFiles ELSE tempFiles \ {f}

\* the finally block of the python path for file f, which exists or not: the
\* file is deleted, and when that throws a timer is set to delete it 5 s later
Cleanup(f, exists, throws) ==
  /\ tempFiles' = IF exists THEN unlinkSync(f, throws) ELSE tempFiles
  /\ cleanupTimers' = IF exists /\ throws THEN cleanupTimers \cup {f} ELSE cleanupTimers

ExecuteCode(s, language, fate, throws) ==
  /\ Packet(s)
  /\ LET c == sockData[s].sessionCode
         n == sockData[s].name
     IN IF language = NotAString
        THEN /\ FailArg("execute-code", s, c, n, language, "Invalid code execution data format")
             /\ UNCHANGED <<tempFiles, cleanupTimers, nextFile>>
        ELSE IF c = "" \/ n = ""
        THEN /\ FailArg("execute-code", s, c, n, language, "Not in a session")
             /\ UNCHANGED <<tempFiles, cleanupTimers, nextFile>>
        ELSE IF language = "python"
        THEN /\ nextFile' = nextFile + 1
             /\ IF fate = "runs"
                THEN /\ execs' = execs \cup {[sock |-> s, code |-> c, name |-> n,
                                              file |-> nextFile]}
                     /\ tempFiles' = tempFiles \cup {nextFile}
                     /\ out' = << >>
                     /\ last' = StepArg("execute-code", s, c, n, language, "running")
                     /\ UNCHANGED <<docs, cleanupTimers>>
                ELSE /\ Cleanup(nextFile, fate = "refused", throws)
                     /\ StoreAndSend(s, c, n, IF fate = "refused" THEN Refused ELSE Unwritable)
                     /\ last' = StepArg("execute-code", s, c, n, language, "done")
                     /\ UNCHANGED execs
        ELSE /\ \E run \in (IF language = "javascript" THEN RunResults ELSE {NotImplemented}) :
                  StoreAndSend(s, c, n, run)
             /\ last' = StepArg("execute-code", s, c, n, language, "done")
             /\ UNCHANGED <<execs, tempFiles, cleanupTimers, nextFile>>
  /\ UNCHANGED <<now, store, conn, sockData, rooms, summaryTimers, graceTimers,
                 limiter, rateTimers, evals, passes, nextToken, evalLog, removed>>
  /\ UNCHANGED intervals
  /\ UNCHANGED <<closing, table, creates>>

\* the python child process of an execute-code ends or is timed out: the rest
\* of the handler
ExecReturns(e, run, throws) ==
  /\ e \in execs
  /\ execs' = execs \ {e}
  /\ Cleanup(e.file, e.file \in tempFiles, throws)
  /\ StoreAndSend(e.sock, e.code, e.name, run)
  /\ last' = StepArg("exec-return", e.sock, e.code, e.name, "python", "done")
  /\ UNCHANGED <<now, store, conn, sockData, rooms, summaryTimers, graceTimers,
                 limiter, rateTimers, evals, passes, nextToken, evalLog, nEvents, removed>>
  /\ UNCHANGED <<idleTimers, intervals>>
  /\ UNCHANGED <<closing, nextFile, table, creates>>

\* the callback of the 5 s timer set when the deletion threw
CleanupRetry(f, throws) ==
  /\ f \in cleanupTimers
  /\ cleanupTimers' = cleanupTimers \ {f}
  /\ tempFiles' = IF f \in tempFiles THEN unlinkSync(f, throws) ELSE tempFiles
  /\ out' = << >>
  /\ last' = StepArg("cleanup-retry", NoSock, "", "", f,
                     IF f \in tempFiles /\ throws THEN "failed" ELSE "ok")
  /\ UNCHANGED <<now, store, docs, conn, sockData, rooms, summaryTimers, graceTimers,
                 limiter, rateTimers, evals, passes, nextToken, evalLog, nEvents,
                 execs, removed, idleTimers, intervals, closing, nextFile, table, creates>>

\* --------------------------------------------------------------- time
Tick ==
  /\ now < MaxTime
  /\ now' = now + 1
  /\ out' = << >>
  /\ last' = Step("tick", NoSock, "", "", "")
  /\ UNCHANGED <<store, docs, conn, sockData, rooms, summaryTimers, graceTimers,
                 limiter, rateTimers, evals, passes, nextToken, evalLog, nEvents>>
  /\ UNCHANGED <<execs, removed>>
  /\ UNCHANGED <<idleTimers, intervals>>
  /\ UNCHANGED <<closing, tempFiles, cleanupTimers, nextFile, table, creates>>

\* ----------------------------------------------------------- shutdown
\* process.on('SIGTERM'): the registered summary timers are cleared and
\* server.close() is called, which stops listening and leaves the open
\* connections alone
Sigterm ==
  /\ ~closing
  /\ closing' = TRUE
  /\ intervals' = [c \in Codes |-> IF c \in summaryTimers THEN intervals[c] - 1
                                   ELSE intervals[c]]
  /\ summaryTimers' = {}
  /\ out' = << >>
  /\ last' = Step("SIGTERM", NoSock, "", "", "")
  /\ UNCHANGED <<now, store, docs, conn, sockData, rooms, graceTimers, limiter,
                 rateTimers, evals, passes, nextToken, evalLog, nEvents, execs,
                 removed, idleTimers, tempFiles, cleanupTimers, nextFile, table, creates>>

\* the callback of server.close() calls process.exit(0) once every connection
\* has ended: until then the process runs on
Running == ~closing \/ \E s \in Sockets : conn[s] = "open"

\* ------------------------------------------- the DynamoDB-backed store
\* the variables of the in-memory server, which the DynamoDB-backed
\* createSession does not touch
serverVars ==
  <<now, store, docs, conn, sockData, rooms, summaryTimers, graceTimers, limiter,
    rateTimers, evals, passes, nextToken, evalLog, out, last, nEvents, execs,
    removed, idleTimers, intervals, closing, tempFiles, cleanupTimers, nextFile>>

\* the POST /create requests the model follows
Requests == 1..MaxCreates

\* docClient.put({TableName, Item}): the item is written under its key
PutItem(code, item) == Put(table, code, item)

\* createSession is called: generateUniqueSessionCode samples a code with
\* generateSessionCode() and asks the table for it
CreateStarts(r, code) ==
  /\ r \notin DOMAIN creates
  /\ creates' = Put(creates, r, [pc |-> "get", code |-> code])
  /\ UNCHANGED table
  /\ UNCHANGED serverVars

\* docClient.get resolves: with an Item the loop samples again, without one
\* the code is returned and createSession calls docClient.put
GetReturns(r, again) ==
  /\ r \in DOMAIN creates
  /\ creates[r].pc = "get"
  /\ creates' = [creates EXCEPT ![r] =
                   IF @.code \in DOMAIN table THEN [pc |-> "get", code |-> again]
                   ELSE [pc |-> "put", code |-> @.code]]
  /\ UNCHANGED table
  /\ UNCHANGED serverVars

\* docClient.put resolves: the item is in the table and the request is
\* answered with its session code
PutReturns(r) ==
  /\ r \in DOMAIN creates
  /\ creates[r].pc = "put"
  /\ table' = PutItem(creates[r].code, [sessionCode |-> creates[r].code, request |-> r])
  /\ creates' = [creates EXCEPT ![r].pc = "done"]
  /\ UNCHANGED serverVars

\* time passes, with nothing else happening, until the expiry timer that is
\* due next is due
TickToDue ==
  /\ \E t \in rateTimers : now < t.due /\ \A u \in rateTimers : t.due <= u.due
  /\ now' = (CHOOSE t \in rateTimers : \A u \in rateTimers : t.due <= u.due).due
  /\ out' = << >>
  /\ last' = Step("tick", NoSock, "", "", "")
  /\ UNCHANGED <<store, docs, conn, sockData, rooms, summaryTimers, graceTimers,
                 limiter, rateTimers, evals, passes, nextToken, evalLog, nEvents,
                 execs, removed, idleTimers, intervals, closing, tempFiles,
                 cleanupTimers, nextFile, table, creates>>

\* ----------------------------------------------------- specifications
\* The engine is explored under several sets of inbound events, each for
\* MaxEvents inbound events, from the state after two POST /create requests
\* (Init) or after two further joins (InitJoined).

\* the token a reconnecting client may send: none, or the one stored for the name
TokenInputs(c, n) ==
  {0} \cup (IF c \in DOMAIN store /\ HasStudent(docs[store[c]], n)
            THEN {docs[store[c]].students[n].reconnectToken} ELSE {})

JoinInputs == {<<"abcdef", "Alice">>, <<"abcdef", "Bob">>, <<"", "Alice">>, <<"nosuch", "Alice">>}

\* joining, leaving and coming back
SessionNext ==
  \/ \E s \in Sockets, i \in JoinInputs : JoinSession(s, i[1], i[2])
  \/ \E s \in Sockets : TeacherJoin(s, "abcdef", "Ms. T")
  \/ \E s \in Sockets, n \in Names :
        \E k \in TokenInputs("abcdef", n) : ReconnectSession(s, "abcdef", n, k)
  \/ \E s \in Sockets : Disconnect(s)
  \/ \E t \in graceTimers : GraceTimerFires(t)
  \/ endSession("abcdef")
  \/ \E n \in Names : joinSession("abcdef", n)

SpecSession == Init /\ [][SessionNext]_vars

\* drafts, the evaluator and the summary scheduler
EvalNext ==
  \/ \E s \in {"s1", "s2"} : JoinSession(s, "abcdef", "Alice")
  \/ \E c \in Codes : TeacherJoin("s3", c, "Ms. T")
  \/ \E s \in Sockets, d \in DraftInputs : CodeUpdate(s, d)
  \/ \E e \in evals, r \in Summaries : EvalReturns(e, r)
  \/ \E t \in rateTimers : RateTimerFires(t)
  \/ \E c \in summaryTimers : SchedulerTick(c)
  \/ \E p \in DOMAIN passes, r \in Summaries : PassEvalReturns(p, r)
  \/ \E s \in Sockets : Disconnect(s)
  \/ \E t \in graceTimers : GraceTimerFires(t)
  \/ endSession("abcdef")
  \/ Tick

SpecEval == Init /\ [][EvalNext]_vars

\* the slide deck and the current slide
SlideNext ==
  \/ \E s \in {"s1", "s2"} : TeacherJoin(s, "abcdef", "Ms. T")
  \/ \E s \in {"s2", "s3"} : JoinSession(s, "abcdef", "Alice")
  \/ \E s \in Sockets, v \in SlideInputs : UpdateSlide(s, v)
  \/ \E s \in Sockets, d \in DeckInputs : UpdateSlideData(s, d)
  \/ \E v \in SlideInputs : updateCurrentSlide("abcdef", v)
  \/ \E u \in UpdateInputs : updateSession("abcdef", u)

SpecSlides == Init /\ [][SlideNext]_vars

\* running code
ExecNext ==
  \/ JoinSession("s1", "abcdef", "Alice")
  \/ \E n \in {"Ms. T", "Alice"} : TeacherJoin("s2", "abcdef", n)
  \/ \E c \in Codes : TeacherJoin("s3", c, "Ms. T")
  \/ \E s \in Sockets, l \in Languages \cup {NotAString} : ExecuteCode(s, l, "runs", FALSE)
  \/ \E e \in execs, r \in RunResults : ExecReturns(e, r, FALSE)
  \/ \E s \in Sockets : Disconnect(s)
  \/ deleteSession("abcdef")

SpecExec == Init /\ [][ExecNext]_vars

\* one student's drafts and the evaluator's retries
RetryNext ==
  \/ JoinSession("s1", "abcdef", "Alice")
  \/ TeacherJoin("s3", "abcdef", "Ms. T")
  \/ \E d \in DraftInputs : CodeUpdate("s1", d)
  \/ \E e \in evals : EvalRetries(e)
  \/ \E e \in evals, a \in Answers : EvalReturns(e, analyzeStudentCode(a).progress)
  \/ \E t \in rateTimers : RateTimerFires(t)
  \/ Tick

SpecRetry == Init /\ [][RetryNext]_vars

\* the drafts of two students and of a teacher, and what the evaluator makes of
\* the model's answers
DraftNext ==
  \/ JoinSession("s1", "abcdef", "Alice")
  \/ JoinSession("s2", "abcdef", "Bob")
  \/ \E n \in {"Ms. T", "Alice"} : TeacherJoin("s3", "abcdef", n)
  \/ \E s \in Sockets, d \in DraftInputs : CodeUpdate(s, d)
  \/ \E e \in evals, a \in Answers : EvalReturns(e, analyzeStudentCode(a).progress)

SpecDrafts == Init /\ [][DraftNext]_vars

\* sockets that send events, fall silent and leave
IdleNext ==
  \/ \E s \in {"s1", "s2"} : TeacherJoin(s, "abcdef", "Ms. T")
  \/ JoinSession("s3", "abcdef", "Alice")
  \/ \E s \in Sockets : UpdateSlide(s, Int_(1))
  \/ \E s \in Sockets : Disconnect(s)
  \/ \E t \in graceTimers : GraceTimerFires(t)
  \/ \E t \in idleTimers : IdleTimerFires(t)
  \/ endSession("abcdef")
  \/ Tick

SpecIdle == Init /\ [][IdleNext]_vars

\* teachers who join, join again, change session or role, and leave
TeacherNext ==
  \/ \E s \in Sockets, c \in Codes : TeacherJoin(s, c, "Ms. T")
  \/ \E s \in {"s2", "s3"} : JoinSession(s, "abcdef", "Alice")
  \/ \E s \in Sockets : Disconnect(s)
  \/ SchedulerTick("abcdef")
  \/ deleteSession("abcdef")

SpecTeachers == Init /\ [][TeacherNext]_vars

\* the state after Alice has joined session abcdef on s1 and then again on s2
InitJoined ==
  /\ now = 1
  /\ store = [c \in Codes |-> IF c = "abcdef" THEN 1 ELSE 2]
  /\ \E d1 \in Decks :
       docs = [o \in {1, 2} |->
                 IF o = 1 THEN SetStudent(NewSession(d1), "Alice", NewStudent("s2", 2))
                 ELSE NewSession(<< >>)]
  /\ conn = [s \in Sockets |-> "open"]
  /\ sockData = [s \in Sockets |->
                   IF s \in {"s1", "s2"}
                   THEN [name |-> "Alice", sessionCode |-> "abcdef", isTeacher |-> FALSE]
                   ELSE NoData]
  /\ rooms = [s \in Sockets |-> IF s \in {"s1", "s2"} THEN {"abcdef"} ELSE {}]
  /\ summaryTimers = {}
  /\ graceTimers = {}
  /\ limiter = << >>
  /\ rateTimers = {}
  /\ evals = {}
  /\ passes = << >>
  /\ nextToken = 3
  /\ evalLog = [k \in Codes \X Names |-> << >>]
  /\ out = << >>
  /\ last = Step("init", NoSock, "", "", "")
  /\ nEvents = 0
  /\ execs = {}
  /\ removed = << >>
  /\ idleTimers = {[sock |-> s, armed |-> 1] : s \in Sockets}
  /\ intervals = [c \in Codes |-> 0]
  /\ closing = FALSE
  /\ tempFiles = {}
  /\ cleanupTimers = {}
  /\ nextFile = 1
  /\ table = << >>
  /\ creates = << >>

\* a short draft: stored, never evaluated by the code-update handler
ShortDraft == "print(1)"

\* the state after Alice on s1 and Bob on s2 have joined session abcdef and
\* have each sent a short draft, and a teacher has joined on s3
InitDrafted ==
  /\ now = 1
  /\ store = [c \in Codes |-> IF c = "abcdef" THEN 1 ELSE 2]
  /\ \E d1 \in Decks :
       docs = [o \in {1, 2} |->
                 IF o = 1
                 THEN [SetStudent(SetStudent(NewSession(d1),
                                  "Alice", [NewStudent("s1", 1) EXCEPT !.code = ShortDraft]),
                                  "Bob", [NewStudent("s2", 2) EXCEPT !.code = ShortDraft])
                         EXCEPT !.teacherSocketId = "s3"]
                 ELSE NewSession(<< >>)]
  /\ conn = [s \in Sockets |-> "open"]
  /\ sockData = [s \in Sockets |->
                   [name |-> IF s = "s1" THEN "Alice" ELSE IF s = "s2" THEN "Bob" ELSE "Ms. T",
                    sessionCode |-> "abcdef", isTeacher |-> s = "s3"]]
  /\ rooms = [s \in Sockets |-> {"abcdef"}]
  /\ summaryTimers = {"abcdef"}
  /\ graceTimers = {}
  /\ limiter = << >>
  /\ rateTimers = {}
  /\ evals = {}
  /\ passes = << >>
  /\ nextToken = 3
  /\ evalLog = [k \in Codes \X Names |-> << >>]
  /\ out = << >>
  /\ last = Step("init", NoSock, "", "", "")
  /\ nEvents = 0
  /\ execs = {}
  /\ removed = << >>
  /\ idleTimers = {[sock |-> s, armed |-> 1] : s \in Sockets}
  /\ intervals = [c \in Codes |-> IF c = "abcdef" THEN 1 ELSE 0]
  /\ closing = FALSE
  /\ tempFiles = {}
  /\ cleanupTimers = {}
  /\ nextFile = 1
  /\ table = << >>
  /\ creates = << >>

\* the summary passes of a session while one of its students clears the
\* draft, leaves, is removed and joins again
PassNext ==
  \/ StartPass("abcdef", MaxOverlap)
  \/ \E p \in DOMAIN passes, r \in {"halfwayDone", EvaluatorFailed} : PassEvalReturns(p, r)
  \/ CodeUpdate("s2", "")
  \/ Disconnect("s2")
  \/ \E t \in graceTimers : GraceTimerFires(t)
  \/ JoinSession("s2", "abcdef", "Bob")

SpecPasses == InitDrafted /\ [][PassNext]_vars

\* a session with a teacher and a student around a SIGTERM
ShutdownNext ==
  \/ Running /\ JoinSession("s1", "abcdef", "Alice")
  \/ Running /\ TeacherJoin("s3", "abcdef", "Ms. T")
  \/ Running /\ \E s \in {"s1", "s2"} : CodeUpdate(s, ShortDraft)
  \/ Running /\ \E s \in Sockets : Disconnect(s)
  \/ Running /\ \E t \in graceTimers : GraceTimerFires(t)
  \/ Running /\ SchedulerTick("abcdef")
  \/ Running /\ \E p \in DOMAIN passes : PassEvalReturns(p, "halfwayDone")
  \/ Running /\ Sigterm

SpecShutdown == Init /\ [][ShutdownNext]_vars

\* one student's drafts and the limiter's expiry timers; the evaluator
\* answers every call, time goes on and a timer that is due fires
ExpiryNext ==
  \/ JoinSession("s1", "abcdef", "Alice")
  \/ \E d \in DraftInputs : CodeUpdate("s1", d)
  \/ \E e \in evals : EvalRetries(e)
  \/ \E e \in evals : EvalReturns(e, "halfwayDone")
  \/ \E t \in rateTimers : RateTimerFires(t)
  \/ Tick
  \/ TickToDue

SpecExpiry ==
  /\ Init
  /\ [][ExpiryNext]_vars
  /\ WF_vars(\E e \in evals : EvalReturns(e, "halfwayDone"))
  /\ WF_vars(\E t \in rateTimers : RateTimerFires(t))
  /\ WF_vars(TickToDue)

\* python runs of a student and of a teacher, with every way a run and the
\* deletion of its file can end
PythonNext ==
  \/ JoinSession("s1", "abcdef", "Alice")
  \/ TeacherJoin("s3", "abcdef", "Ms. T")
  \/ \E s \in {"s1", "s3"}, fate \in Fates, throws \in BOOLEAN :
        ExecuteCode(s, "python", fate, throws)
  \/ \E e \in execs, r \in RunResults \cup {TimedOut}, throws \in BOOLEAN :
        ExecReturns(e, r, throws)
  \/ \E f \in cleanupTimers, throws \in BOOLEAN : CleanupRetry(f, throws)
  \/ Disconnect("s1")

SpecPython == Init /\ [][PythonNext]_vars

\* concurrent POST /create requests against the DynamoDB table
CreateNext ==
  \/ \E r \in Requests, c \in Codes : CreateStarts(r, c)
  \/ \E r \in Requests, c \in Codes : GetReturns(r, c)
  \/ \E r \in Requests : PutReturns(r)

SpecCreate == Init /\ [][CreateNext]_vars

\* the token a returning client may send: none, the one stored for the name,
\* or the one it held when its record was removed
ReturnTokens(c, n) ==
  TokenInputs(c, n) \cup
    (IF Key(c, n) \in DOMAIN removed THEN {removed[Key(c, n)]} ELSE {})

\* a student's drafts, departure and return, and the deletion of the session
LifeNext ==
  \/ JoinSession("s3", "abcdef", "Alice")
  \/ \E s \in {"s1", "s2"}, d \in DraftInputs : CodeUpdate(s, d)
  \/ \E e \in evals : EvalReturns(e, "halfwayDone")
  \/ \E s \in Sockets : Disconnect(s)
  \/ \E t \in graceTimers : GraceTimerFires(t)
  \/ \E s \in {"s2", "s3"} : \E k \in ReturnTokens("abcdef", "Alice") :
        ReconnectSession(s, "abcdef", "Alice", k)
  \/ deleteSession("abcdef")

SpecLife == InitJoined /\ [][LifeNext]_vars

\* ------------------------------------------------------------- claims
\* socket t is bound to session c in the given role
Attached(t, c, teacher) ==
  /\ conn[t] = "open"
  /\ c \in rooms[t]
  /\ sockData[t].sessionCode = c
  /\ sockData[t].isTeacher = teacher

\* the events named ev among a sequence of emissions, and those sent to t
Named(seq, ev) == SelectSeq(seq, LAMBDA e : e.ev = ev)
SentTo(seq, t) == SelectSeq(seq, LAMBDA e : e.to = t)

\* the session object a step ran on
DocOf(c) == docs[store[c]]

\* C1: a removal timer whose student has reconnected with the stored token
\* since the timer was armed does not delete the student when it fires: the
\* record that was in session.students before the callback is there after it.
C1_ReconnectCancelsRemoval ==
  [][\A t \in graceTimers :
       (/\ last'.ev = "grace-timer"
        /\ t \notin graceTimers'
        /\ t.reconnected
        /\ t.code \in DOMAIN store
        /\ HasStudent(DocOf(t.code), t.name))
       => HasStudent(docs'[store'[t.code]], t.name)]_vars

\* C2: a reconnect-session for an existing student whose token differs from the
\* stored reconnectToken is answered by one error event and nothing else: no
\* room is joined, the socket's binding and the session objects are unchanged.
C2_ReconnectRequiresToken ==
  [][(/\ last'.ev = "reconnect-session"
      /\ last'.code \in DOMAIN store
      /\ HasStudent(DocOf(last'.code), last'.name)
      /\ last'.arg # DocOf(last'.code).students[last'.name].reconnectToken)
     => (/\ Len(out') = 1
         /\ out'[1].ev = "error"
         /\ out'[1].to = last'.sock
         /\ rooms' = rooms
         /\ sockData' = sockData
         /\ docs' = docs)]_vars

\* the start time of the last evaluator call for a key, 0 when there was none
LastCall(k) == IF evalLog[k] = << >> THEN 0 ELSE evalLog[k][Len(evalLog[k])]

\* C3: per (sessionCode, studentName), two successive evaluator calls start at
\* least 10 s apart, whichever of the code-update handler and the summary pass
\* makes them; and less than 10 s after the last accepted call no step starts a
\* call for the key, a code-update that asks for one being refused (null).
C3_OneCallPerWindow ==
  /\ [](\A k \in DOMAIN evalLog :
          Len(evalLog[k]) = 2 => evalLog[k][2] - evalLog[k][1] >= RateWindow)
  /\ [][\A k \in DOMAIN evalLog :
          (LastCall(k) # 0 /\ now' - LastCall(k) < RateWindow)
          => (/\ evalLog'[k] = evalLog[k]
              /\ (/\ last'.ev = "code-update"
                  /\ last'.res \in {"rate-limited", "evaluating"}
                  /\ Key(last'.code, last'.name) = k)
                 => (last'.res = "rate-limited" /\ evals' = evals))]_vars

\* a code-update was refused by the limiter after two calls were made for its key
C3_Witness ==
  /\ last.ev = "code-update"
  /\ last.res = "rate-limited"
  /\ Len(evalLog[Key(last.code, last.name)]) = 2

\* C4: after a student's code-update is processed, each socket attached to the
\* session as teacher has received exactly one student-code-update with the
\* student's name and that code, and no other socket has received one.
C4_CodeUpdateToTeachersOnly ==
  (last.ev = "code-update" /\ last.res \in {"short", "rate-limited", "evaluating"})
  => \A t \in Sockets :
       SentTo(Named(out, "student-code-update"), t) =
         IF Attached(t, last.code, TRUE)
         THEN <<Emission(t, "student-code-update", last.name, last.arg)>>
         ELSE << >>

\* C5: when an evaluation returns for a student who is marked disconnected or
\* whose record is gone, the summary is dropped: the session objects are as
\* before and no student-summary-update is emitted.
C5_LateSummaryDiscarded ==
  [][(/\ last'.ev \in {"eval-return", "pass-return"}
      /\ last'.code \in DOMAIN store
      /\ \/ ~HasStudent(DocOf(last'.code), last'.name)
         \/ DocOf(last'.code).students[last'.name].disconnectedAt # 0)
     => (docs' = docs /\ Named(out', "student-summary-update") = << >>)]_vars

\* currentSlide is a legal index of the deck, or 0 for an empty deck
LegalSlide(doc) ==
  /\ doc.currentSlide[1] = "int"
  /\ \/ (0 <= doc.currentSlide[2] /\ doc.currentSlide[2] < Len(doc.slides))
     \/ (doc.slides = << >> /\ doc.currentSlide[2] = 0)

\* C6: in every reachable state the currentSlide of every stored session is an
\* integer that indexes its deck, or 0 when the deck is empty.
C6_CurrentSlideLegal == \A c \in DOMAIN store : LegalSlide(DocOf(c))

\* C7: a student record with disconnectedAt set has no connected socket
\* attached to the session as a student under that name.
C7_DisconnectedHasNoEndpoint ==
  \A c \in DOMAIN store : \A n \in DOMAIN DocOf(c).students :
    DocOf(c).students[n].disconnectedAt # 0
    => ~\E t \in Sockets : Attached(t, c, FALSE) /\ sockData[t].name = n

\* the reconnect tokens stored in any session object
StoredTokens ==
  UNION {{docs[o].students[n].reconnectToken : n \in DOMAIN docs[o].students} :
         o \in DOMAIN docs} \ {0}

\* C8: a successful join-session leaves the name in session.students with the
\* caller as socketId and a reconnectToken no record held before, binds the
\* caller to the room as a student, sends the caller session-data (carrying
\* that token) and then slide-change, once each, and sends user-joined once to
\* every other socket of the room and not to the caller.
C8_JoinEffects ==
  [][(last'.ev = "join-session" /\ last'.res = "ok")
     => LET s == last'.sock
            c == last'.code
            n == last'.name
            rec == docs'[store'[c]].students[n]
        IN /\ HasStudent(docs'[store'[c]], n)
           /\ rec.socketId = s
           /\ rec.reconnectToken # 0
           /\ rec.reconnectToken \notin StoredTokens
           /\ c \in rooms'[s]
           /\ sockData'[s] = [name |-> n, sessionCode |-> c, isTeacher |-> FALSE]
           /\ Len(SentTo(out', s)) = 2
           /\ SentTo(out', s)[1].ev = "session-data"
           /\ SentTo(out', s)[1].val.reconnectToken = rec.reconnectToken
           /\ SentTo(out', s)[1].val.doc = docs'[store'[c]]
           /\ SentTo(out', s)[2].ev = "slide-change"
           /\ \A t \in Sockets \ {s} :
                SentTo(out', t) =
                  IF conn[t] = "open" /\ c \in rooms[t]
                  THEN <<Emission(t, "user-joined", n, "")>> ELSE << >>]_vars

\* a join-session succeeded in a room that held two other sockets
C8_Witness ==
  /\ last.ev = "join-session"
  /\ last.res = "ok"
  /\ Cardinality(RoomSockets(last.code) \ {last.sock}) = 2

\* C9: while a session's active flag is false, a join-session and a POST
\* /:code/join for it are answered with an error (error event, status 400) and
\* leave the session objects, the rooms and the sockets' bindings unchanged.
C9_NoJoinWhenEnded ==
  [][(/\ last'.ev \in {"join-session", "http-join"}
      /\ last'.code \in DOMAIN store
      /\ last'.name # ""
      /\ DocOf(last'.code).active = FALSE)
     => (/\ docs' = docs
         /\ rooms' = rooms
         /\ sockData' = sockData
         /\ IF last'.ev = "join-session"
            THEN last'.res = "error" /\ Len(out') = 1 /\ out'[1].ev = "error"
                 /\ out'[1].to = last'.sock
            ELSE last'.res = "400")]_vars

\* a join-session for an ended session was refused while a student was in it
C9_Witness ==
  /\ last.ev = "join-session"
  /\ last.res = "error"
  /\ last.code \in DOMAIN store
  /\ last.name # ""
  /\ DocOf(last.code).active = FALSE
  /\ DocOf(last.code).students # << >>

\* C10: a step that emits student-summary-update does so for a session that
\* is active and has a teacher attached.
C10_NoSummaryAfterEnd ==
  Named(out, "student-summary-update") # << >>
  => (/\ last.code \in DOMAIN store
      /\ DocOf(last.code).active
      /\ \E t \in Sockets : Attached(t, last.code, TRUE))

\* C11: in every state, a session code with a summary scheduler registered has
\* a connected socket attached to it as teacher.
C11_SchedulerStopsWithoutTeacher ==
  \A c \in summaryTimers : \E t \in Sockets : Attached(t, c, TRUE)

\* C12: when an execute-code of a socket attached as student has run, the
\* socket has received one execution-result, each socket attached to the
\* session as teacher one student-execution-result with the student's name and
\* the same result and error, and no socket anything else.
C12_ExecutionResultFanOut ==
  (/\ last.ev \in {"execute-code", "exec-return"}
   /\ last.res = "done"
   /\ Attached(last.sock, last.code, FALSE))
  => \E run \in RunResults \cup {NotImplemented} :
       \A t \in Sockets :
         SentTo(out, t) =
           IF t = last.sock THEN <<Emission(t, "execution-result", "", run)>>
           ELSE IF Attached(t, last.code, TRUE)
           THEN <<Emission(t, "student-execution-result", last.name, run)>>
           ELSE << >>

\* C13: a reconnect-session with the stored token for a student who is marked
\* disconnected, has a non-empty draft and a removal timer pending is answered
\* by session-data, slide-change and code-restore with that draft, in this
\* order; a reconnect-session with that token for a name the removal timer has
\* deleted (and nobody joined again) is answered by one error event and leaves
\* the session objects unchanged.
C13_ReconnectRoundTrip ==
  [][last'.ev = "reconnect-session" =>
       LET c == last'.code
           n == last'.name
           s == last'.sock
       IN /\ (/\ c \in DOMAIN store
               /\ Key(c, n) \notin DOMAIN removed
               /\ HasStudent(DocOf(c), n)
               /\ DocOf(c).students[n].disconnectedAt # 0
               /\ DocOf(c).students[n].code # ""
               /\ DocOf(c).students[n].reconnectToken = last'.arg
               /\ \E t \in graceTimers : t.code = c /\ t.name = n)
              => (/\ Len(out') = 3
                  /\ \A i \in 1..3 : out'[i].to = s
                  /\ out'[1].ev = "session-data"
                  /\ out'[2].ev = "slide-change"
                  /\ out'[3] = Emission(s, "code-restore", "", DocOf(c).students[n].code))
          /\ (Key(c, n) \in DOMAIN removed /\ last'.arg = removed[Key(c, n)])
              => (/\ Len(out') = 1
                  /\ out'[1].ev = "error"
                  /\ out'[1].to = s
                  /\ docs' = docs)]_vars

\* C14: when the removal timer of a disconnected student fires and the student
\* has neither reconnected nor joined again since it was armed, the student is
\* not in session.students afterwards; when the session is no longer in the
\* store, the callback changes nothing.
C14_GraceTimerRemoves ==
  [][\A t \in graceTimers :
       (/\ last'.ev = "grace-timer"
        /\ t \notin graceTimers'
        /\ ~t.reconnected
        /\ ~t.rejoined)
       => (/\ store' = store
           /\ IF t.code \in DOMAIN store
              THEN ~HasStudent(docs'[store[t.code]], t.name)
              ELSE docs' = docs)]_vars

\* C15: a session code that is not in the store is not put into it by any
\* step (no session is created in these behaviours): a deleted session stays
\* deleted.
C15_DeletedStaysDeleted ==
  [][\A c \in Codes : c \notin DOMAIN store => c \notin DOMAIN store']_vars

\* C16: the slide-change a successful join-session or reconnect-session sends
\* to the caller is the one an update-slide to the current index broadcasts:
\* index = currentSlide, hasCodeEditor = that slide's hasCodingTask, prompt =
\* that slide's prompt, "" when there is no such slide.
C16_CallerSlideChangeComplete ==
  [][(last'.ev \in {"join-session", "reconnect-session"} /\ last'.res = "ok")
     => LET doc == docs'[store'[last'.code]]
            sc == Named(SentTo(out', last'.sock), "slide-change")
        IN /\ Len(sc) = 1
           /\ sc[1].val = [index |-> doc.currentSlide,
                           hasCodeEditor |-> isSlideWithCoding(doc, doc.currentSlide),
                           prompt |-> SlidePrompt(doc, doc.currentSlide)]]_vars

\* C17: an update-slide or update-slide-data from a socket that is not bound
\* as teacher is answered by one error event to that socket, and changes no
\* session object.
C17_TeacherOnlyRejected ==
  [][(/\ last'.ev \in {"update-slide", "update-slide-data"}
      /\ ~sockData[last'.sock].isTeacher)
     => (/\ Len(out') = 1
         /\ out'[1].ev = "error"
         /\ out'[1].to = last'.sock
         /\ docs' = docs)]_vars

\* the step just taken handled an event whose payload lacks a field or has one
\* of the wrong type, or that needs a binding its socket does not have
BadRequest ==
  \/ /\ last'.ev \in {"join-session", "teacher-join", "reconnect-session"}
     /\ (last'.code = "" \/ last'.name = "")
  \/ /\ last'.ev = "reconnect-session"
     /\ last'.arg = 0
  \/ /\ last'.ev \in {"code-update", "execute-code"}
     /\ (last'.arg = NotAString \/ sockData[last'.sock].sessionCode = "")
  \/ /\ last'.ev = "update-slide"
     /\ (~IsNumber(last'.arg) \/ sockData[last'.sock].sessionCode = "")

\* C18: an inbound event with a missing or wrongly typed field, or from a
\* socket without the binding it needs, is answered by one error event to the
\* caller; session objects, store, rooms and socket bindings stay as they were.
C18_BadRequestRejected ==
  [][BadRequest
     => (/\ Len(out') = 1
         /\ out'[1].ev = "error"
         /\ out'[1].to = last'.sock
         /\ docs' = docs
         /\ store' = store
         /\ rooms' = rooms
         /\ sockData' = sockData)]_vars

\* C19: when the evaluation started by a code-update returns and its summary
\* is stored, each socket attached to the session as teacher at that moment
\* receives one student-summary-update for the student, and no other socket
\* receives one.
C19_SummaryToCurrentTeachers ==
  [][last'.ev = "eval-return"
     => \A t \in Sockets :
          LET got == SentTo(Named(out', "student-summary-update"), t)
          IN IF Attached(t, last'.code, TRUE)
             THEN Len(got) = 1 /\ got[1].name = last'.name
             ELSE got = << >>]_vars

\* C20: an execute-code that has run for a socket bound as teacher leaves the
\* session objects unchanged and delivers one execution-result to the caller
\* and nothing to anybody else.
C20_TeacherRunNotStored ==
  [][(/\ last'.ev \in {"execute-code", "exec-return"}
      /\ last'.res = "done"
      /\ conn[last'.sock] = "open"
      /\ sockData[last'.sock].isTeacher
      /\ sockData[last'.sock].sessionCode = last'.code)
     => (/\ docs' = docs
         /\ Len(out') = 1
         /\ out'[1].ev = "execution-result"
         /\ out'[1].to = last'.sock)]_vars

\* C21: an evaluator call in flight has made at most two requests to the
\* language model: the one it starts with and one retry.
C21_AtMostTwoRequests == \A e \in evals : e.requests <= 2

\* C22: every summary stored in a student record and every summary carried by
\* a student-summary-update has one of the five progress labels of the schema.
C22_SummaryInSchema ==
  /\ \A o \in DOMAIN docs : \A n \in DOMAIN docs[o].students :
       docs[o].students[n].summary \in Labels \cup {""}
  /\ \A i \in DOMAIN out :
       out[i].ev = "student-summary-update" => out[i].val \in Labels

\* C23: an update-slide with a valid index that repeats the update-slide of
\* the step before leaves every session object as the first one left it and
\* sends what the first one sent: one slide-change with the same index,
\* hasCodeEditor and prompt to each socket attached to the session.
C23_UpdateSlideIdempotent ==
  [][(/\ last'.ev = "update-slide"
      /\ last'.res = "ok"
      /\ last'.repeat
      /\ HasSlide(DocOf(last'.code), last'.arg))
     => (/\ docs' = docs
         /\ out' = out
         /\ \A t \in Sockets :
              (Attached(t, last'.code, TRUE) \/ Attached(t, last'.code, FALSE))
              => (/\ Len(SentTo(out', t)) = 1
                  /\ SentTo(out', t)[1].ev = "slide-change"
                  /\ SentTo(out', t)[1].val =
                       [index |-> last'.arg,
                        hasCodeEditor |-> DocOf(last'.code).slides[last'.arg[2] + 1].hasCodingTask,
                        prompt |-> DocOf(last'.code).slides[last'.arg[2] + 1].prompt]))]_vars

\* a teacher has sent the same valid update-slide twice in a row while a
\* student was attached to the session
C23_Witness ==
  /\ last.ev = "update-slide"
  /\ last.res = "ok"
  /\ last.repeat
  /\ HasSlide(DocOf(last.code), last.arg)
  /\ \E t \in Sockets : Attached(t, last.code, FALSE)
  /\ Len(out) >= 2

\* session object `after` differs from `before` at most in the record of student n
OnlyStudent(before, after, n) ==
  /\ [after EXCEPT !.students = << >>] = [before EXCEPT !.students = << >>]
  /\ DOMAIN after.students \ {n} = DOMAIN before.students \ {n}
  /\ \A m \in DOMAIN before.students \ {n} : after.students[m] = before.students[m]

\* C24: a code-update of a socket bound as student S leaves S's record with
\* the code it carries and the time of the write, whatever was stored and
\* whatever evaluation is in flight; the evaluation that returns later writes
\* S's summary and leaves S's code as the last write left it; neither step
\* changes another student's record, another session field or another session.
C24_LastWriterWins ==
  [][(\/ last'.ev = "code-update" /\ last'.res \in {"short", "rate-limited", "evaluating"}
      \/ last'.ev = "eval-return")
     => LET c == last'.code
            n == last'.name
            oid == store'[c]
            old == docs[oid]
            new == docs'[oid]
        IN /\ \A o \in DOMAIN docs \ {oid} : docs'[o] = docs[o]
           /\ OnlyStudent(old, new, n)
           /\ IF ~HasStudent(old, n)
              THEN last'.ev = "code-update" => new = old
              ELSE /\ HasStudent(new, n)
                   /\ IF last'.ev = "code-update"
                      THEN new.students[n] =
                             [old.students[n] EXCEPT !.code = last'.arg, !.lastActive = now]
                      ELSE [new.students[n] EXCEPT !.summary = ""] =
                             [old.students[n] EXCEPT !.summary = ""]]_vars

\* Alice's evaluation has returned after a later, shorter draft of hers was
\* stored, while Bob's record was in the session: her record holds the later
\* draft and the summary
C24_Witness ==
  /\ last.ev = "eval-return"
  /\ last.name = "Alice"
  /\ last.code \in DOMAIN store
  /\ HasStudent(DocOf(last.code), "Alice")
  /\ HasStudent(DocOf(last.code), "Bob")
  /\ DocOf(last.code).students["Alice"].code = "print(1)"
  /\ DocOf(last.code).students["Alice"].summary # ""

\* C25: a code-update of a socket bound as teacher to a stored session writes
\* currentCode of that session and nothing else: no event is emitted, no
\* evaluator call is started, the rate limiter and its timers stay as they
\* were, and students, slides and currentSlide are unchanged.
C25_TeacherDraftOnly ==
  [][(/\ last'.ev = "code-update"
      /\ last'.arg # NotAString
      /\ sockData[last'.sock].isTeacher
      /\ sockData[last'.sock].name # ""
      /\ sockData[last'.sock].sessionCode \in DOMAIN store)
     => (/\ docs' = [docs EXCEPT ![store[last'.code]].currentCode = last'.arg]
         /\ out' = << >>
         /\ evals' = evals
         /\ evalLog' = evalLog
         /\ passes' = passes
         /\ limiter' = limiter
         /\ rateTimers' = rateTimers)]_vars

\* a teacher whose name is also a student's has sent a draft of more than 10
\* characters, and it is the session's currentCode
C25_Witness ==
  /\ last.ev = "code-update"
  /\ sockData[last.sock].isTeacher
  /\ last.code \in DOMAIN store
  /\ HasStudent(DocOf(last.code), last.name)
  /\ Len(last.arg) > MinSummaryLen
  /\ DocOf(last.code).currentCode = last.arg
  /\ \E t \in Sockets : Attached(t, last.code, FALSE)

\* the pending idle timers of socket s
IdleOf(timers, s) == {t \in timers : t.sock = s}

\* C26: a connected socket has exactly one pending idle timer and a closed one
\* none, and no pending timer is past its 30 minutes; an inbound event of a
\* socket leaves that socket with one timer armed at the time of the event and
\* the other sockets' timers as they were; a socket is force-disconnected at
\* 30 minutes after its timer was armed, no earlier and no later; a
\* disconnect removes the socket's timer; no other step changes a timer.
C26_IdleTimer ==
  /\ [](\A s \in Sockets :
          /\ Cardinality(IdleOf(idleTimers, s)) = IF conn[s] = "open" THEN 1 ELSE 0
          /\ \A t \in IdleOf(idleTimers, s) : now <= t.armed + IdlePeriod)
  /\ [][LET s == last'.sock
        IN IF nEvents' # nEvents /\ s \in Sockets /\ last'.ev # "disconnect"
           THEN /\ IdleOf(idleTimers', s) = {[sock |-> s, armed |-> now']}
                /\ \A u \in Sockets \ {s} : IdleOf(idleTimers', u) = IdleOf(idleTimers, u)
           ELSE IF last'.ev \in {"disconnect", "idle-timeout"}
           THEN /\ idleTimers' = idleTimers \ IdleOf(idleTimers, s)
                /\ conn'[s] = "closed"
                /\ last'.ev = "idle-timeout"
                   => \A t \in IdleOf(idleTimers, s) : now' = t.armed + IdlePeriod
           ELSE idleTimers' = idleTimers /\ conn' = conn]_vars

\* a socket whose last event came at time 2 has been force-disconnected 30
\* minutes later, while another socket that kept sending is still connected
C26_Witness ==
  /\ last.ev = "idle-timeout"
  /\ now = 2 + IdlePeriod
  /\ \E t \in idleTimers : t.armed > 2

\* C27: while a teacher is attached to a session, no step starts an evaluator
\* call for a student of it whose stored code has at most 10 characters.
C27_ShortDraftNotEvaluated ==
  [][\A k \in DOMAIN evalLog :
       (/\ k[1] \in DOMAIN store'
        /\ HasStudent(docs'[store'[k[1]]], k[2])
        /\ Len(docs'[store'[k[1]]].students[k[2]].code) <= MinSummaryLen
        /\ \E t \in Sockets : Attached(t, k[1], TRUE))
       => evalLog'[k] = evalLog[k]]_vars

C29_RemovalAfterLatestDisconnect ==
  [][\A t \in graceTimers :
       (/\ last'.ev = "grace-timer"
        /\ last'.res = "removed"
        /\ t \notin graceTimers'
        /\ t.rejoined)
       => ~\E u \in graceTimers' :
             u.code = t.code /\ u.name = t.name /\ ~u.rejoined]_vars

\* C30: a session-data delivered to a socket bound as student carries no
\* reconnectToken of another student: none of a record under a name other than
\* the socket's whose socketId is another socket.
C30_TokenOnlyToOwner ==
  \A i \in DOMAIN out :
    (out[i].ev = "session-data" /\ ~sockData[out[i].to].isTeacher)
    => \A n \in DOMAIN out[i].val.doc.students :
         (n # sockData[out[i].to].name /\ out[i].val.doc.students[n].socketId # out[i].to)
         => out[i].val.doc.students[n].reconnectToken = 0

\* the events a session sends to its room or to its teachers
SessionEvents ==
  {"slide-change", "user-joined", "user-left", "student-code-update",
   "student-summary-update", "student-execution-result"}

\* C31: a connected socket is in no room but that of the session it is bound
\* to, and every slide-change, user-joined, user-left, student-code-update,
\* student-summary-update and student-execution-result a step of session X
\* delivers goes to a socket that is bound to X.
C31_OneRoomPerEndpoint ==
  /\ \A t \in Sockets :
       conn[t] = "open" => rooms[t] \subseteq {sockData[t].sessionCode}
  /\ \A i \in DOMAIN out :
       out[i].ev \in SessionEvents => sockData[out[i].to].sessionCode = last.code

\* evaluation e is for (c, n), a call accepted later for (c, n) has been made
\* and no call accepted later than e is still in flight: the result of a newer
\* draft is what students[n].summary holds
Superseded(e) ==
  /\ LastCall(Key(e.code, e.name)) > e.stamp
  /\ \A f \in evals : (f.code = e.code /\ f.name = e.name) => f.stamp <= e.stamp
  /\ e.code \in DOMAIN store /\ store[e.code] = e.oid
  /\ HasStudent(docs[e.oid], e.name)
  /\ docs[e.oid].students[e.name].summary # ""

\* C32: when the evaluation of an older draft returns after the result of a
\* draft accepted later for the same student has been stored, it leaves
\* students[name].summary as it is.
C32_LateResultDiscarded ==
  [][\A e \in evals :
       (Superseded(e) /\ evals' = evals \ {e} /\ last'.ev = "eval-return")
       => docs'[e.oid].students[e.name].summary = docs[e.oid].students[e.name].summary]_vars

\* pass p has just called the evaluator: it has moved on in its entry list and
\* waits for the answer for its current student
PassCalls(p) ==
  /\ p \in DOMAIN passes'
  /\ last'.ev \in {"summary-tick", "pass-return"}
  /\ p \in DOMAIN passes => passes'[p].todo # passes[p].todo

\* C33: when a scheduler pass calls the evaluator for a student, that student
\* has a record in the session at that moment, with code that is not empty and
\* with no disconnectedAt.
C33_PassSkipsEmptyAndDisconnected ==
  [][\A p \in DOMAIN passes' :
       PassCalls(p)
       => LET doc == docs'[passes'[p].oid]
              n == passes'[p].cur
          IN /\ HasStudent(doc, n)
             /\ doc.students[n].code # ""
             /\ doc.students[n].disconnectedAt = 0]_vars

\* the pass skips the entry, or generateCodeSummary refuses it: the held
\* student has no code, is marked disconnected, or had a call less than 10 s ago
PassedOver(e, oid, c) ==
  \/ Held(e, oid).code = ""
  \/ Held(e, oid).disconnectedAt # 0
  \/ RateLimited(Key(c, e.name))

\* the number of entries pass p has left behind in the step, its new current
\* student not counted
LeftBehind(p) ==
  IF p \in DOMAIN passes' THEN Len(passes[p].todo) - Len(passes'[p].todo) - 1
  ELSE Len(passes[p].todo)

\* C34: when the evaluator's answer for one student of a pass has been handled,
\* whether it was stored, was the evaluator's failure value, or the write threw
\* because the student's record is gone, the pass goes on: it calls the
\* evaluator for the first remaining entry that has code, is not disconnected
\* and is not refused by the limiter, and it ends only when there is none.
C34_FailureDoesNotAbortPass ==
  [][\A p \in DOMAIN passes :
       (last'.ev = "pass-return" /\ last'.arg = p)
       => /\ \A i \in 1..LeftBehind(p) :
               PassedOver(passes[p].todo[i], passes[p].oid, passes[p].code)
          /\ p \in DOMAIN passes'
             => passes'[p].cur = passes[p].todo[LeftBehind(p) + 1].name]_vars

\* the write of a summary threw because the student had been removed, and the
\* same pass has called the evaluator for its next student
C34_Witness ==
  /\ last.ev = "pass-return"
  /\ last.res = "threw"
  /\ last.arg \in DOMAIN passes
  /\ passes[last.arg].cur # last.name

\* C35: no two invocations of updateStudentSummaries are in progress for the
\* same session at the same time.
C35_OnePassPerSession ==
  \A p, q \in DOMAIN passes : passes[p].code = passes[q].code => p = q

\* C36: a step of update-slide or of PUT /:code/slide/:idx that changes a
\* session's currentSlide delivers to every connected socket of the session's
\* room a slide-change whose index is the new currentSlide.
C36_SlideChangeBroadcast ==
  [][\A c \in DOMAIN store :
       (/\ last'.ev \in {"update-slide", "http-slide"}
        /\ c \in DOMAIN store'
        /\ docs'[store'[c]].currentSlide # docs[store[c]].currentSlide)
       => \A t \in RoomSockets(c) :
            \E i \in DOMAIN out' :
              /\ out'[i].to = t
              /\ out'[i].ev = "slide-change"
              /\ out'[i].val.index = docs'[store'[c]].currentSlide]_vars

\* C37: in the DynamoDB-backed store no two createSession calls succeed with
\* the same session code, and no put replaces an item that is in the table.
C37_CreateNeverOverwrites ==
  /\ [](\A r, q \in DOMAIN creates :
          (/\ creates[r].pc = "done"
           /\ creates[q].pc = "done"
           /\ creates[r].code = creates[q].code) => r = q)
  /\ [][\A c \in DOMAIN table : table'[c] = table[c]]_vars

\* C38: once the SIGTERM handler has run, no summary timer runs, no removal
\* timer of a disconnected student is pending, every socket is closed, and no
\* step changes a session object.
C38_QuietAfterShutdown ==
  /\ [](closing => /\ \A c \in Codes : intervals[c] = 0
                   /\ graceTimers = {}
                   /\ \A s \in Sockets : conn[s] = "closed")
  /\ [][closing => docs' = docs]_vars

Finished ==
  {e.file : e \in execs \ execs'} \cup
  (IF last'.ev = "execute-code" /\ last'.res = "done" /\ nextFile' # nextFile
   THEN {nextFile} ELSE {})

\* the step that finished a python run has sent the execution-result to the
\* socket that asked for it, if that socket is still connected
Answered ==
  (Finished # {} /\ conn[last'.sock] = "open")
  => Len(Named(SentTo(out', last'.sock), "execution-result")) = 1

====
